---- MODULE Spec2Model ----
(***************************************************************************)
(* A model of mailtrain/api.py: the Mailtrain client, its two decorators   *)
(* (validate_email, check_response) and its operations.                    *)
(*                                                                         *)
(* Python strings are sequences of segments: a segment is one character    *)
(* (where the code looks at characters: e-mail addresses, the base URL) or *)
(* one literal of the source ("api", "subscriptions", "?access_token=").   *)
(* Concatenation (+) is \o.  A dict is a function from its keys.           *)
(***************************************************************************)
EXTENDS Integers, Sequences, FiniteSets, TLC

VARIABLES api_url_arg, api_url, api_token, pc, call, sent, got, outcome, lists, idx

vars == <<api_url_arg, api_url, api_token, pc, call, sent, got, outcome, lists, idx>>

(***************************************************************************)
(* Bounds of the exploration.                                              *)
(***************************************************************************)
MaxEmailLen == 5
MaxSlashes == 2
MaxLists == 2
MaxExtras == 1

(***************************************************************************)
(* Strings.                                                                *)
(***************************************************************************)
RECURSIVE SeqsUpTo(_, _)
SeqsUpTo(S, n) ==
    IF n = 0 THEN {<<>>}
    ELSE LET shorter == SeqsUpTo(S, n - 1)
         IN  shorter \cup {Append(s, x) : s \in {t \in shorter : Len(t) = n - 1}, x \in S}

EmptyStr == <<>>
Yes == <<"y", "e", "s">>
No == <<"n", "o">>

EndsWith(s, seg) == Len(s) > 0 /\ s[Len(s)] = seg

\* str(n) for a non-negative int
RECURSIVE str(_)
str(n) ==
    LET digit(d) == CASE d = 0 -> "0" [] d = 1 -> "1" [] d = 2 -> "2" [] d = 3 -> "3"
                      [] d = 4 -> "4" [] d = 5 -> "5" [] d = 6 -> "6" [] d = 7 -> "7"
                      [] d = 8 -> "8" [] d = 9 -> "9"
    IN  IF n < 10 THEN <<digit(n)>> ELSE str(n \div 10) \o <<digit(n % 10)>>

\* dict[k] = v
SetItem(d, k, v) == (k :> v) @@ d
EmptyDict == [k \in {} |-> EmptyStr]

(***************************************************************************)
(* validate_email: the regular expression                                  *)
(*   (^[a-zA-Z0-9_.+-]+@[a-zA-Z0-9-]+\.[a-zA-Z0-9-.]+$)                    *)
(* over the characters of EmailChars.  re.match anchors at the start; $    *)
(* matches at the end of the string and just before a newline that ends it.*)
(***************************************************************************)
EmailChars == {"a", "@", "."}

LocalClass == {"a", "0", "_", ".", "+", "-"}
DomainClass == {"a", "0", "-"}
TailClass == {"a", "0", "-", "."}

AllIn(s, lo, hi, class) == lo <= hi /\ \A i \in lo..hi : s[i] \in class

MatchesUpTo(s, n) ==
    \E at \in 1..n : \E dot \in (at + 1)..n :
        /\ s[at] = "@"
        /\ s[dot] = "."
        /\ AllIn(s, 1, at - 1, LocalClass)
        /\ AllIn(s, at + 1, dot - 1, DomainClass)
        /\ AllIn(s, dot + 1, n, TailClass)

re_match(s) ==
    \/ MatchesUpTo(s, Len(s))
    \/ Len(s) > 0 /\ s[Len(s)] = "\n" /\ MatchesUpTo(s, Len(s) - 1)


(***************************************************************************)
(* Calls.  A call is [op, args, kwargs]: the positional arguments after    *)
(* self and the keyword arguments.  Bind gives a parameter its value the   *)
(* way Python binds it.                                                    *)
(***************************************************************************)
Call(op, args, kwargs) == [op |-> op, args |-> args, kwargs |-> kwargs]

Bind(c, pos, name, default) ==
    IF name \in DOMAIN c.kwargs THEN c.kwargs[name]
    ELSE IF pos <= Len(c.args) THEN c.args[pos]
    ELSE default

\* Python values whose type matters to +: an int or a str
PyInt(n) == [type |-> "int", val |-> n]
PyStr(s) == [type |-> "str", val |-> s]

Raise(exc, msg) == [kind |-> "raise", exc |-> exc, msg |-> msg]
Return(v) == [kind |-> "return", value |-> v]
Send(method, url, data) ==
    [kind |-> "request", req |-> [method |-> method, url |-> url, data |-> data]]
NoOutcome == [kind |-> "none"]
NoCall == [op |-> "none"]

(***************************************************************************)
(* The decorators.                                                         *)
(***************************************************************************)
\* validate_email.wrapper, up to the call of func: the exception it raises, or "ok".
\* kwargs.get("email", args[0]) evaluates args[0] before the lookup.
validate_email(c) ==
    IF Len(c.args) = 0 THEN "IndexError"
    ELSE LET email == IF "email" \in DOMAIN c.kwargs THEN c.kwargs["email"] ELSE c.args[1]
         IN  IF ~re_match(email) THEN "ValueError" ELSE "ok"

\* requests' Response.raise_for_status: raises for 4xx and 5xx
raise_for_status(status) == (400 <= status /\ status < 500) \/ (500 <= status /\ status < 600)

\* dict.get("error") is truthy
ErrorTruthy(doc) == "error" \in DOMAIN doc /\ doc["error"] # EmptyStr

\* a variant that checks the status before the envelope's error
check_response_StatusFirst(r) ==
    IF ~r.json THEN Raise("JSONDecodeError", EmptyStr)
    ELSE IF raise_for_status(r.status) THEN Raise("HTTPError", EmptyStr)
    ELSE IF ErrorTruthy(r.doc) THEN Raise("ApiError", r.doc["error"])
    ELSE IF "data" \notin DOMAIN r.doc THEN Raise("KeyError", EmptyStr)
    ELSE Return(r.doc["data"])

\* check_response.wrapper, after func has returned the response r
check_response(r) ==
    IF ~r.json THEN Raise("JSONDecodeError", EmptyStr)
    ELSE IF ErrorTruthy(r.doc) THEN Raise("ApiError", r.doc["error"])
    ELSE IF raise_for_status(r.status) THEN Raise("HTTPError", EmptyStr)
    ELSE IF "data" \notin DOMAIN r.doc THEN Raise("KeyError", EmptyStr)
    ELSE Return(r.doc["data"])

(***************************************************************************)
(* Mailtrain.__init__                                                      *)
(***************************************************************************)
\* a variant that keeps the URL as passed
StripSlash_Keep(url) == url

\* api_url[:-1] if api_url.endswith("/") else api_url
StripSlash(url) == IF EndsWith(url, "/") THEN SubSeq(url, 1, Len(url) - 1) ELSE url

(***************************************************************************)
(* The bodies of the operations: what each does up to its HTTP call, given *)
(* the client's api_url and api_token: a request to send, or an exception  *)
(* raised before any request.                                              *)
(***************************************************************************)
Api(url, resource) == url \o <<"/", "api", "/">> \o resource
AccessToken(token) == <<"?access_token=">> \o token

DefaultStart == 0
DefaultLimit == 10000

get_subscribers(url, token, c) ==
    LET list_id == Bind(c, 1, "list_id", EmptyStr)
        start == Bind(c, 2, "start", DefaultStart)
        limit == Bind(c, 3, "limit", DefaultLimit)
    IN  Send("GET",
             Api(url, <<"subscriptions", "/">>) \o list_id \o AccessToken(token)
                 \o <<"&start=">> \o str(start) \o <<"&limit=">> \o str(limit),
             EmptyDict)

AddSubscriptionParams ==
    {"email", "list_id", "first_name", "last_name", "timezone",
     "force_subscribe", "require_confirmation"}

\* a variant that merges the extra fields last: {"EMAIL": email, ..., **kwargs}
add_subscription_ExtrasLast(url, token, c) ==
    LET email == Bind(c, 1, "email", EmptyStr)
        list_id == Bind(c, 2, "list_id", EmptyStr)
        first_name == Bind(c, 3, "first_name", EmptyStr)
        last_name == Bind(c, 4, "last_name", EmptyStr)
        timezone == Bind(c, 5, "timezone", EmptyStr)
        force_subscribe == Bind(c, 6, "force_subscribe", TRUE)
        require_confirmation == Bind(c, 7, "require_confirmation", FALSE)
        kwargs == [k \in DOMAIN c.kwargs \ AddSubscriptionParams |-> c.kwargs[k]]
        d0 == "EMAIL" :> email
        d1 == IF first_name # EmptyStr THEN SetItem(d0, "MERGE_FIRST_NAME", first_name) ELSE d0
        d2 == IF last_name # EmptyStr THEN SetItem(d1, "MERGE_LAST_NAME", last_name) ELSE d1
        d3 == IF timezone # EmptyStr THEN SetItem(d2, "TIMEZONE", timezone) ELSE d2
        d4 == IF force_subscribe THEN SetItem(d3, "FORCE_SUBSCRIBE", Yes) ELSE d3
        d5 == IF require_confirmation THEN SetItem(d4, "REQUIRE_CONFIRMATION", Yes) ELSE d4
    IN  Send("POST", Api(url, <<"subscribe", "/">>) \o list_id \o AccessToken(token),
             kwargs @@ d5)

add_subscription(url, token, c) ==
    LET email == Bind(c, 1, "email", EmptyStr)
        list_id == Bind(c, 2, "list_id", EmptyStr)
        first_name == Bind(c, 3, "first_name", EmptyStr)
        last_name == Bind(c, 4, "last_name", EmptyStr)
        timezone == Bind(c, 5, "timezone", EmptyStr)
        force_subscribe == Bind(c, 6, "force_subscribe", TRUE)
        require_confirmation == Bind(c, 7, "require_confirmation", FALSE)
        kwargs == [k \in DOMAIN c.kwargs \ AddSubscriptionParams |-> c.kwargs[k]]
        d0 == kwargs @@ ("EMAIL" :> email)
        d1 == IF first_name # EmptyStr THEN SetItem(d0, "MERGE_FIRST_NAME", first_name) ELSE d0
        d2 == IF last_name # EmptyStr THEN SetItem(d1, "MERGE_LAST_NAME", last_name) ELSE d1
        d3 == IF timezone # EmptyStr THEN SetItem(d2, "TIMEZONE", timezone) ELSE d2
        d4 == IF force_subscribe THEN SetItem(d3, "FORCE_SUBSCRIBE", Yes) ELSE d3
        d5 == IF require_confirmation THEN SetItem(d4, "REQUIRE_CONFIRMATION", Yes) ELSE d4
    IN  Send("POST", Api(url, <<"subscribe", "/">>) \o list_id \o AccessToken(token), d5)

unsubscribe(url, token, c) ==
    LET email == Bind(c, 1, "email", EmptyStr)
        list_id == Bind(c, 2, "list_id", EmptyStr)
    IN  Send("POST", Api(url, <<"unsubscribe", "/">>) \o list_id \o AccessToken(token),
             "EMAIL" :> email)

delete_subscription(url, token, c) ==
    LET email == Bind(c, 1, "email", EmptyStr)
        list_id == Bind(c, 2, "list_id", EmptyStr)
    IN  Send("POST", Api(url, <<"delete", "/">>) \o list_id \o AccessToken(token),
             "EMAIL" :> email)

valid_types ==
    {<<"text">>, <<"website">>, <<"longtext">>, <<"gpg">>, <<"number">>, <<"radio">>,
     <<"checkbox">>, <<"dropdown">>, <<"date-us">>, <<"date-eur">>, <<"birthday-us">>,
     <<"birthday-eur">>, <<"json">>, <<"option">>}

\* a variant without the check of group for type "option"
create_custom_field_NoGroupCheck(url, token, c) ==
    LET list_id == Bind(c, 1, "list_id", EmptyStr)
        name == Bind(c, 2, "name", EmptyStr)
        type == Bind(c, 3, "type", EmptyStr)
        group_template == Bind(c, 4, "group_template", EmptyStr)
        group == Bind(c, 5, "group", EmptyStr)
        visible == Bind(c, 6, "visible", TRUE)
    IN  IF type \notin valid_types THEN Raise("ValueError", <<"Invalid type">>)
        ELSE Send("POST", Api(url, <<"field", "/">>) \o list_id \o AccessToken(token),
                  [NAME |-> name, TYPE |-> type, GROUP |-> group,
                   GROUP_TEMPLATE |-> group_template,
                   VISIBLE |-> IF visible THEN Yes ELSE No])

create_custom_field(url, token, c) ==
    LET list_id == Bind(c, 1, "list_id", EmptyStr)
        name == Bind(c, 2, "name", EmptyStr)
        type == Bind(c, 3, "type", EmptyStr)
        group_template == Bind(c, 4, "group_template", EmptyStr)
        group == Bind(c, 5, "group", EmptyStr)
        visible == Bind(c, 6, "visible", TRUE)
    IN  IF type \notin valid_types THEN Raise("ValueError", <<"Invalid type">>)
        ELSE IF type = <<"option">> /\ group = EmptyStr
        THEN Raise("ValueError", <<"You must specify the parent element ID">>)
        ELSE Send("POST", Api(url, <<"field", "/">>) \o list_id \o AccessToken(token),
                  [NAME |-> name, TYPE |-> type, GROUP |-> group,
                   GROUP_TEMPLATE |-> group_template,
                   VISIBLE |-> IF visible THEN Yes ELSE No])

get_blacklist(url, token, c) ==
    LET start == Bind(c, 1, "start", DefaultStart)
        limit == Bind(c, 2, "limit", DefaultLimit)
        search == Bind(c, 3, "search", EmptyStr)
    IN  Send("GET",
             Api(url, <<"blacklist", "/", "get">>) \o AccessToken(token)
                 \o <<"&start=">> \o str(start) \o <<"&limit=">> \o str(limit)
                 \o <<"&search=">> \o search,
             EmptyDict)

add_to_blacklist(url, token, c) ==
    LET email == Bind(c, 1, "email", EmptyStr)
    IN  Send("POST", Api(url, <<"blacklist", "/", "add">>) \o AccessToken(token),
             "EMAIL" :> email)

delete_from_blacklist(url, token, c) ==
    LET email == Bind(c, 1, "email", EmptyStr)
    IN  Send("POST", Api(url, <<"blacklist", "/", "delete">>) \o AccessToken(token),
             "EMAIL" :> email)

get_lists(url, token, c) ==
    LET email == Bind(c, 1, "email", EmptyStr)
    IN  Send("GET", Api(url, <<"lists", "/">>) \o email \o AccessToken(token), EmptyDict)

get_lists_by_namespace(url, token, c) ==
    LET namespace_id == Bind(c, 1, "namespace_id", EmptyStr)
    IN  Send("GET", Api(url, <<"lists-by-namespace", "/">>) \o namespace_id
                        \o AccessToken(token), EmptyDict)

unsubscription_modes == {0, 1, 2, 3, 4}
fieldwizards == {EmptyStr, <<"full_name">>, <<"first_last_name">>}

\* int(b) for a bool
int(b) == IF b THEN 1 ELSE 0

\* a variant that accepts the docstring's "none" as a fieldwizard
create_list_AcceptsNone(url, token, c) ==
    LET namespace == Bind(c, 1, "namespace", EmptyStr)
        unsubscription_mode == Bind(c, 2, "unsubscription_mode", 0)
        name == Bind(c, 3, "name", EmptyStr)
        description == Bind(c, 4, "description", EmptyStr)
        contact_email == Bind(c, 5, "contact_email", EmptyStr)
        homepage == Bind(c, 6, "homepage", EmptyStr)
        fieldwizard == Bind(c, 7, "fieldwizard", EmptyStr)
        send_configuration == Bind(c, 8, "send_configuration", TRUE)
        public_subscribe == Bind(c, 9, "public_subscribe", TRUE)
        listunsubscribe_disabled == Bind(c, 10, "listunsubscribe_disabled", FALSE)
    IN  IF unsubscription_mode \notin unsubscription_modes
        THEN Raise("ValueError", <<"Invalid unsubscription_mode">>)
        ELSE IF fieldwizard \notin fieldwizards \cup {<<"none">>}
        THEN Raise("ValueError", <<"Invalid fieldwizard">>)
        ELSE Send("POST", Api(url, <<"list">>) \o AccessToken(token),
                  [NAMESPACE |-> namespace, UNSUBSCRIPTION_MODE |-> unsubscription_mode,
                   NAME |-> name, DESCRIPTION |-> description,
                   CONTACT_EMAIL |-> contact_email, HOMEPAGE |-> homepage,
                   FIELDWIZARD |-> fieldwizard,
                   SEND_CONFIGURATION |-> int(send_configuration),
                   PUBLIC_SUBSCRIBE |-> int(public_subscribe),
                   LISTUNSUBSCRIBE_DISABLED |-> int(listunsubscribe_disabled)])

create_list(url, token, c) ==
    LET namespace == Bind(c, 1, "namespace", EmptyStr)
        unsubscription_mode == Bind(c, 2, "unsubscription_mode", 0)
        name == Bind(c, 3, "name", EmptyStr)
        description == Bind(c, 4, "description", EmptyStr)
        contact_email == Bind(c, 5, "contact_email", EmptyStr)
        homepage == Bind(c, 6, "homepage", EmptyStr)
        fieldwizard == Bind(c, 7, "fieldwizard", EmptyStr)
        send_configuration == Bind(c, 8, "send_configuration", TRUE)
        public_subscribe == Bind(c, 9, "public_subscribe", TRUE)
        listunsubscribe_disabled == Bind(c, 10, "listunsubscribe_disabled", FALSE)
    IN  IF unsubscription_mode \notin unsubscription_modes
        THEN Raise("ValueError", <<"Invalid unsubscription_mode">>)
        ELSE IF fieldwizard \notin fieldwizards
        THEN Raise("ValueError", <<"Invalid fieldwizard">>)
        ELSE Send("POST", Api(url, <<"list">>) \o AccessToken(token),
                  [NAMESPACE |-> namespace, UNSUBSCRIPTION_MODE |-> unsubscription_mode,
                   NAME |-> name, DESCRIPTION |-> description,
                   CONTACT_EMAIL |-> contact_email, HOMEPAGE |-> homepage,
                   FIELDWIZARD |-> fieldwizard,
                   SEND_CONFIGURATION |-> int(send_configuration),
                   PUBLIC_SUBSCRIBE |-> int(public_subscribe),
                   LISTUNSUBSCRIBE_DISABLED |-> int(listunsubscribe_disabled)])

delete_list(url, token, c) ==
    LET list_id == Bind(c, 1, "list_id", EmptyStr)
    IN  Send("DELETE", Api(url, <<"list", "/">>) \o list_id \o AccessToken(token), EmptyDict)

fetch_rss(url, token, c) ==
    LET campaign_cid == Bind(c, 1, "campaign_cid", EmptyStr)
    IN  Send("GET", Api(url, <<"rss", "/", "fetch", "/">>) \o campaign_cid
                        \o AccessToken(token), EmptyDict)

DefaultTemplateId == 1

\* "/api/templates/" + template_id is str + int with the default template_id
send_email_by_template(url, token, c) ==
    LET email == Bind(c, 1, "email", EmptyStr)
        template_id == Bind(c, 2, "template_id", PyInt(DefaultTemplateId))
        tags == Bind(c, 3, "tags", EmptyDict)
        send_configuration_id == Bind(c, 4, "send_configuration_id", 0)
        subject == Bind(c, 5, "subject", EmptyStr)
        attachments == Bind(c, 6, "attachments", <<>>)
    IN  IF template_id.type # "str"
        THEN Raise("TypeError", <<"can only concatenate str to str">>)
        ELSE Send("POST",
                  Api(url, <<"templates", "/">>) \o template_id.val
                      \o <<"/", "send">> \o AccessToken(token),
                  [EMAIL |-> email, TAGS |-> tags,
                   SEND_CONFIGURATION_ID |-> send_configuration_id,
                   SUBJECT |-> subject, ATTACHMENTS |-> attachments])

(***************************************************************************)
(* Dispatch: the decorated method, up to its HTTP call.                    *)
(***************************************************************************)
EmailValidated ==
    {"add_subscription", "update_subscription", "unsubscribe", "unsubscribe_from_all_lists",
     "delete_subscription", "delete_from_all_lists", "add_to_blacklist",
     "delete_from_blacklist", "get_lists", "send_email_by_template"}

Body(url, token, c) ==
    CASE c.op = "get_subscribers" -> get_subscribers(url, token, c)
      [] c.op = "add_subscription" -> add_subscription(url, token, c)
      [] c.op = "update_subscription" -> add_subscription(url, token, c)
      [] c.op = "unsubscribe" -> unsubscribe(url, token, c)
      [] c.op = "delete_subscription" -> delete_subscription(url, token, c)
      [] c.op = "create_custom_field" -> create_custom_field(url, token, c)
      [] c.op = "get_blacklist" -> get_blacklist(url, token, c)
      [] c.op = "add_to_blacklist" -> add_to_blacklist(url, token, c)
      [] c.op = "delete_from_blacklist" -> delete_from_blacklist(url, token, c)
      [] c.op = "get_lists" -> get_lists(url, token, c)
      [] c.op = "get_lists_by_namespace" -> get_lists_by_namespace(url, token, c)
      [] c.op = "create_list" -> create_list(url, token, c)
      [] c.op = "delete_list" -> delete_list(url, token, c)
      [] c.op = "fetch_rss" -> fetch_rss(url, token, c)
      [] c.op = "send_email_by_template" -> send_email_by_template(url, token, c)

\* @validate_email, when the method has it, then the method's body
Decorated(url, token, c) ==
    IF c.op \in EmailValidated /\ validate_email(c) # "ok"
    THEN Raise(validate_email(c), EmptyStr)
    ELSE Body(url, token, c)

\* requests.get / post / delete, then check_response: a transport failure is raised
\* by requests itself
Receive(r) == IF r.transport THEN Raise("ConnectionError", EmptyStr) ELSE check_response(r)

(***************************************************************************)
(* The environment: what the caller passes and what the server answers.    *)
(***************************************************************************)
Token == <<"t", "0", "k">>
Slashes(k) == [i \in 1..k |-> "/"]
BaseUrl == <<"https:", "/", "/", "mail.example.com">>
Urls == {BaseUrl \o Slashes(k) : k \in 0..MaxSlashes}

SampleEmail == <<"a", "@", "a", ".", "a">>
NewlineEmail == SampleEmail \o <<"\n">>
Emails == SeqsUpTo(EmailChars, MaxEmailLen) \cup {NewlineEmail}
Cids == {<<"L1">>, <<"L2">>}
ListId == <<"L1">>
ListSeqs == {[i \in DOMAIN s |-> [cid |-> s[i]]] : s \in SeqsUpTo(Cids, MaxLists)}
Payload == [id |-> 1]
ErrMsg == <<"Not Found">>
Statuses == {200, 300, 404, 500}

Http(status, json, doc) == [transport |-> FALSE, status |-> status, json |-> json, doc |-> doc]
TransportFailure == [transport |-> TRUE]

Docs(datas) ==
    {[data |-> d] : d \in datas}
        \cup {[error |-> EmptyStr, data |-> d] : d \in datas}
        \cup {[error |-> ErrMsg, data |-> d] : d \in datas}
        \cup {[error |-> ErrMsg], EmptyDict}

Responses(datas) ==
    {TransportFailure}
        \cup {Http(st, FALSE, EmptyDict) : st \in {200, 500}}
        \cup {Http(st, TRUE, doc) : st \in Statuses, doc \in Docs(datas)}

Ok(data) == Http(200, TRUE, [data |-> data])

\* the answers explored for a call: all of them for a call with no optional
\* argument and the sample address (if it takes one), success and one remote
\* error for the others
Answers(c) ==
    LET datas == IF c.op = "get_lists" THEN ListSeqs ELSE {Payload}
        plain == Len(c.args) <= 2 /\ DOMAIN c.kwargs \subseteq {"email", "list_id"}
        sample == c.op \notin EmailValidated \/ Bind(c, 1, "email", EmptyStr) = SampleEmail
    IN  IF plain /\ sample THEN Responses(datas)
        ELSE {Ok(d) : d \in datas} \cup {Http(404, TRUE, [error |-> ErrMsg])}

\* the e-mail argument passed positionally or by keyword, with the other required
\* arguments (rest: their values, names: their names) passed the same way
RECURSIVE Named(_, _)
Named(names, values) ==
    IF names = <<>> THEN EmptyDict
    ELSE (Head(names) :> Head(values)) @@ Named(Tail(names), Tail(values))

Forms(op, names, values) ==
    {Call(op, values, EmptyDict), Call(op, <<>>, Named(names, values))}

EmailCalls(op) == UNION {Forms(op, <<"email">>, <<e>>) : e \in Emails}
EmailListCalls(op) ==
    UNION {Forms(op, <<"email", "list_id">>, <<e, ListId>>) : e \in Emails}

\* optional keyword arguments: each omitted or given one of its values
Optional(name, values) == {EmptyDict} \cup {name :> v : v \in values}

ExtraKeys == {"EMAIL", "FORCE_SUBSCRIBE", "REQUIRE_CONFIRMATION", "MERGE_FIRST_NAME", "MERGE_CITY"}
ExtraFields ==
    UNION {[ks -> {Yes, No}] : ks \in {k \in SUBSET ExtraKeys : Cardinality(k) <= MaxExtras}}

AddSubscriptionCalls(op) ==
    EmailListCalls(op)
        \cup {Call(op, <<SampleEmail, ListId>>, fn @@ ln @@ tz @@ fs @@ rc @@ x) :
                fn \in Optional("first_name", {<<"A">>}),
                ln \in Optional("last_name", {<<"B">>}),
                tz \in Optional("timezone", {<<"UTC">>}),
                fs \in Optional("force_subscribe", BOOLEAN),
                rc \in Optional("require_confirmation", BOOLEAN),
                x \in ExtraFields}

GetSubscribersCalls ==
    {Call("get_subscribers", <<ListId>>, s @@ l) :
        s \in Optional("start", {0, 25}), l \in Optional("limit", {10, DefaultLimit})}

FieldTypes == valid_types \cup {EmptyStr, <<"bogus">>, <<"Option">>}
CreateCustomFieldCalls ==
    {Call("create_custom_field", <<l, n, t>>, gt @@ g @@ v) :
        l \in Cids, n \in {EmptyStr, <<"field">>}, t \in FieldTypes,
        gt \in Optional("group_template", {<<"tpl">>}),
        g \in Optional("group", {EmptyStr, <<"7">>}),
        v \in Optional("visible", BOOLEAN)}

GetBlacklistCalls ==
    {Call("get_blacklist", <<>>, s @@ l @@ q) :
        s \in Optional("start", {0, 25}), l \in Optional("limit", {10}),
        q \in Optional("search", {<<"a">>})}

CreateListCalls ==
    {Call("create_list", <<ns, m>>, n @@ fw @@ sc @@ ps @@ ld) :
        ns \in {EmptyStr, <<"ns">>}, m \in -1..5,
        n \in Optional("name", {<<"news">>}),
        fw \in Optional("fieldwizard",
                        fieldwizards \cup {<<"none">>, <<"Full_Name">>}),
        sc \in Optional("send_configuration", {FALSE}),
        ps \in Optional("public_subscribe", {FALSE}),
        ld \in Optional("listunsubscribe_disabled", {TRUE})}

SendEmailCalls ==
    EmailCalls("send_email_by_template")
        \cup {Call("send_email_by_template", <<SampleEmail>>, t @@ sj) :
                t \in Optional("template_id", {PyStr(<<"7">>), PyInt(7)}),
                sj \in Optional("subject", {<<"Hi">>})}

(***************************************************************************)
(* The state machine.  A call of an operation runs from "idle" to "done";  *)
(* the two ...from_all_lists helpers pass through "loop", one request per  *)
(* step.  Finish hands the outcome to the caller.                          *)
(***************************************************************************)
Init ==
    /\ api_url_arg \in Urls
    /\ api_url = StripSlash(api_url_arg)
    /\ api_token = Token
    /\ pc = "idle"
    /\ call = NoCall
    /\ sent = <<>>
    /\ got = <<>>
    /\ outcome = NoOutcome
    /\ lists = <<>>
    /\ idx = 0

\* an operation that issues at most one request
Perform(c) ==
    /\ pc = "idle"
    /\ call' = c
    /\ pc' = "done"
    /\ LET d == Decorated(api_url, api_token, c)
       IN  IF d.kind = "raise"
           THEN /\ outcome' = d
                /\ sent' = <<>>
                /\ got' = <<>>
           ELSE \E r \in Answers(c) :
                /\ sent' = <<d.req>>
                /\ got' = <<r>>
                /\ outcome' = Receive(r)
    /\ UNCHANGED <<api_url_arg, api_url, api_token, lists, idx>>

GetSubscribers == pc = "idle" /\ \E c \in GetSubscribersCalls : Perform(c)
AddSubscription == pc = "idle" /\ \E c \in AddSubscriptionCalls("add_subscription") : Perform(c)
UpdateSubscription == pc = "idle" /\ \E c \in AddSubscriptionCalls("update_subscription") : Perform(c)
Unsubscribe == pc = "idle" /\ \E c \in EmailListCalls("unsubscribe") : Perform(c)
DeleteSubscription == pc = "idle" /\ \E c \in EmailListCalls("delete_subscription") : Perform(c)
CreateCustomField == pc = "idle" /\ \E c \in CreateCustomFieldCalls : Perform(c)
GetBlacklist == pc = "idle" /\ \E c \in GetBlacklistCalls : Perform(c)
AddToBlacklist == pc = "idle" /\ \E c \in EmailCalls("add_to_blacklist") : Perform(c)
DeleteFromBlacklist == pc = "idle" /\ \E c \in EmailCalls("delete_from_blacklist") : Perform(c)
GetLists == pc = "idle" /\ \E c \in EmailCalls("get_lists") : Perform(c)
GetListsByNamespace == Perform(Call("get_lists_by_namespace", <<<<"ns">>>>, EmptyDict))
CreateList == pc = "idle" /\ \E c \in CreateListCalls : Perform(c)
DeleteList == Perform(Call("delete_list", <<ListId>>, EmptyDict))
FetchRss == Perform(Call("fetch_rss", <<<<"c1">>>>, EmptyDict))
SendEmailByTemplate == pc = "idle" /\ \E c \in SendEmailCalls : Perform(c)

\* one call self.<op>(args...) made from inside a helper, answered r if it sends
\* its request: the request is appended to those of the helper
Inner(c, r) ==
    LET d == Decorated(api_url, api_token, c)
    IN  IF d.kind = "raise"
        THEN UNCHANGED <<sent, got>>
        ELSE sent' = Append(sent, d.req) /\ got' = Append(got, r)

\* what that call returns or raises
InnerOutcome(c, r) ==
    LET d == Decorated(api_url, api_token, c)
    IN  IF d.kind = "raise" THEN d ELSE Receive(r)

\* unsubscribe_from_all_lists / delete_from_all_lists up to the start of the loop:
\* the helper's own @validate_email, then self.get_lists(email)
FromAllListsStart(c) ==
    /\ pc = "idle"
    /\ call' = c
    /\ UNCHANGED <<api_url_arg, api_url, api_token>>
    /\ IF validate_email(c) # "ok"
       THEN /\ outcome' = Raise(validate_email(c), EmptyStr)
            /\ pc' = "done"
            /\ UNCHANGED <<sent, got, lists, idx>>
       ELSE LET inner == Call("get_lists", <<Bind(c, 1, "email", EmptyStr)>>, EmptyDict)
            IN  \E r \in Answers(inner) :
                    LET o == InnerOutcome(inner, r)
                    IN  /\ Inner(inner, r)
                        /\ IF o.kind = "raise"
                           THEN outcome' = o /\ pc' = "done" /\ UNCHANGED <<lists, idx>>
                           ELSE /\ outcome' = NoOutcome
                                /\ pc' = "loop"
                                /\ lists' = o.value
                                /\ idx' = 1

\* a variant of the iteration that catches the error of one list and goes on
FromAllListsStep_CatchAndGoOn(outer, inner) ==
    /\ pc = "loop"
    /\ call.op = outer
    /\ idx <= Len(lists)
    /\ UNCHANGED <<api_url_arg, api_url, api_token, call, lists>>
    /\ LET c == Call(inner, <<Bind(call, 1, "email", EmptyStr), lists[idx]["cid"]>>, EmptyDict)
       IN  \E r \in Answers(c) :
               /\ Inner(c, r)
               /\ outcome' = NoOutcome
               /\ pc' = "loop"
               /\ idx' = idx + 1

\* one iteration of "for list_id in ...: self.<inner>(email, list_id["cid"])"
FromAllListsStep(outer, inner) ==
    /\ pc = "loop"
    /\ call.op = outer
    /\ idx <= Len(lists)
    /\ UNCHANGED <<api_url_arg, api_url, api_token, call, lists>>
    /\ LET c == Call(inner, <<Bind(call, 1, "email", EmptyStr), lists[idx]["cid"]>>, EmptyDict)
       IN  \E r \in Answers(c) :
               LET o == InnerOutcome(c, r)
               IN  /\ Inner(c, r)
                   /\ IF o.kind = "raise"
                      THEN outcome' = o /\ pc' = "done" /\ idx' = idx
                      ELSE outcome' = NoOutcome /\ pc' = "loop" /\ idx' = idx + 1

\* the loop is exhausted: return True
FromAllListsReturn ==
    /\ pc = "loop"
    /\ idx > Len(lists)
    /\ outcome' = Return(TRUE)
    /\ pc' = "done"
    /\ UNCHANGED <<api_url_arg, api_url, api_token, call, sent, got, lists, idx>>

UnsubscribeFromAllLists == pc = "idle" /\ \E c \in EmailCalls("unsubscribe_from_all_lists") : FromAllListsStart(c)
UnsubscribeEach == FromAllListsStep("unsubscribe_from_all_lists", "unsubscribe")
DeleteFromAllLists == pc = "idle" /\ \E c \in EmailCalls("delete_from_all_lists") : FromAllListsStart(c)
DeleteEach == FromAllListsStep("delete_from_all_lists", "delete_subscription")

\* the caller takes the outcome; the client keeps nothing of the call
Finish ==
    /\ pc = "done"
    /\ pc' = "idle"
    /\ call' = NoCall
    /\ sent' = <<>>
    /\ got' = <<>>
    /\ outcome' = NoOutcome
    /\ lists' = <<>>
    /\ idx' = 0
    /\ UNCHANGED <<api_url_arg, api_url, api_token>>

Next ==
    \/ GetSubscribers
    \/ AddSubscription
    \/ UpdateSubscription
    \/ Unsubscribe
    \/ UnsubscribeFromAllLists
    \/ UnsubscribeEach
    \/ DeleteSubscription
    \/ DeleteFromAllLists
    \/ DeleteEach
    \/ FromAllListsReturn
    \/ CreateCustomField
    \/ GetBlacklist
    \/ AddToBlacklist
    \/ DeleteFromBlacklist
    \/ GetLists
    \/ GetListsByNamespace
    \/ CreateList
    \/ DeleteList
    \/ FetchRss
    \/ SendEmailByTemplate
    \/ Finish

Spec == Init /\ [][Next]_vars

(***************************************************************************)
(* Vocabulary of the properties.                                           *)
(***************************************************************************)
FromAll == {"unsubscribe_from_all_lists", "delete_from_all_lists"}
Done == pc = "done"
Started == pc \in {"loop", "done"}
Email(c) == Bind(c, 1, "email", EmptyStr)
Raised(exc) == outcome.kind = "raise" /\ outcome.exc = exc
Returned == outcome.kind = "return"

\* the string has no "@" followed, later, by a "."
Malformed(e) == ~\E i \in 1..Len(e) : \E j \in (i + 1)..Len(e) : e[i] = "@" /\ e[j] = "."

\* the URL starts with the stored base URL and "/api/" follows it
DoubledSlash(url) == url[Len(api_url)] = "/" /\ url[Len(api_url) + 1] = "/"

(***************************************************************************)
(* C1.  Every e-mail-validated operation, called with an e-mail string     *)
(* that lacks an "@" followed by a domain with a dot, raises the local     *)
(* validation error (ValueError) and issues no HTTP request, whether the   *)
(* e-mail is passed positionally or by keyword.                            *)
(***************************************************************************)
\* C1: a finished call of an e-mail-validated operation with a malformed e-mail has
\* raised ValueError and sent nothing
C1_MalformedRaisesValueError ==
    (Done /\ call.op \in EmailValidated /\ Malformed(Email(call)))
        => (Raised("ValueError") /\ sent = <<>>)

(***************************************************************************)
(* C2.  Every operation but the two ...from_all_lists helpers, called with *)
(* arguments that pass local validation (defaults included), has issued    *)
(* exactly one HTTP request when it returns or raises; a helper that       *)
(* returns for an address on N lists has issued exactly N + 1.             *)
(***************************************************************************)
PassesLocalValidation(c) ==
    LET d == Decorated(api_url, api_token, c)
    IN  ~(d.kind = "raise" /\ d.exc \in {"ValueError", "IndexError"})

\* C2: one request per locally valid call; N + 1 for a helper that returns
C2_OneRequestPerCall ==
    /\ (Done /\ call.op \notin FromAll /\ PassesLocalValidation(call)) => Len(sent) = 1
    /\ (Done /\ call.op \in FromAll /\ Returned) => Len(sent) = Len(lists) + 1

(***************************************************************************)
(* C3.  unsubscribe_from_all_lists with a valid e-mail first issues one    *)
(* get_lists request for that e-mail, then one unsubscribe request per     *)
(* list cid, in the order get_lists returned them, and returns True.       *)
(***************************************************************************)
GetListsRequest(email) == get_lists(api_url, api_token, Call("get_lists", <<email>>, EmptyDict)).req
UnsubscribeRequest(email, cid) ==
    unsubscribe(api_url, api_token, Call("unsubscribe", <<email, cid>>, EmptyDict)).req
DeleteRequest(email, cid) ==
    delete_subscription(api_url, api_token,
                        Call("delete_subscription", <<email, cid>>, EmptyDict)).req

\* C3: the requests of unsubscribe_from_all_lists with a valid e-mail are get_lists,
\* then the unsubscribe of each list in order; it returns True after the last
C3_GetListsThenUnsubscribeInOrder ==
    (Started /\ call.op = "unsubscribe_from_all_lists" /\ re_match(Email(call)))
        => /\ Len(sent) >= 1
           /\ sent[1] = GetListsRequest(Email(call))
           /\ \A i \in 2..Len(sent) :
                 /\ i - 1 <= Len(lists)
                 /\ sent[i] = UnsubscribeRequest(Email(call), lists[i - 1]["cid"])
           /\ Returned => (outcome.value = TRUE /\ Len(sent) = Len(lists) + 1)

(***************************************************************************)
(* C4.  In the two helpers, a per-list request that fails ends the call    *)
(* with that error: no request follows it, True is not returned, and the   *)
(* requests made before it stand (the log is get_lists, then one request   *)
(* per list up to the failing one, nothing else).                          *)
(* As claimed, "fails" covers every non-2xx status; as amended, it is an   *)
(* envelope error, a 4xx/5xx status, a body that cannot be decoded, or a   *)
(* transport error.                                                        *)
(***************************************************************************)
FailsAsClaimed(r) ==
    r.transport \/ ~r.json \/ ErrorTruthy(r.doc) \/ r.status \notin 200..299
        \/ "data" \notin DOMAIN r.doc

FailsAsAmended(r) ==
    r.transport \/ ~r.json \/ ErrorTruthy(r.doc) \/ r.status \in 400..599
        \/ "data" \notin DOMAIN r.doc

PerListRequest(email, cid) ==
    IF call.op = "unsubscribe_from_all_lists" THEN UnsubscribeRequest(email, cid)
    ELSE DeleteRequest(email, cid)

\* fails: which of the answers got so far count as failed (a set of indices)
FirstFailureAborts(fails) ==
    (Started /\ call.op \in FromAll)
        => /\ Len(sent) = Len(got)
           /\ \A k \in 2..Len(got) :
                 /\ sent[k] = PerListRequest(Email(call), lists[k - 1]["cid"])
                 /\ k \in fails
                      => /\ k = Len(got)
                         /\ Done
                         /\ outcome = Receive(got[k])
                         /\ outcome.kind = "raise"
           /\ Returned => \A k \in 2..Len(got) : k \notin fails

Decoded == Done /\ call.op \notin FromAll /\ Len(got) = 1 /\ ~got[1].transport /\ got[1].json

C6_NoTrailingSlash ==
    /\ ~EndsWith(api_url, "/")
    /\ \A i \in 1..Len(sent) : ~DoubledSlash(sent[i].url)

EndsWithTwoSlashes(url) == Len(url) >= 2 /\ url[Len(url)] = "/" /\ url[Len(url) - 1] = "/"

\* C6 as amended: the stored base URL is the URL passed less one trailing "/"; it
\* ends with no "/", and no request URL has "//" before "api", unless the URL
\* passed ends with "//"
C6_OneTrailingSlashRemoved ==
    /\ api_url_arg \in {api_url, api_url \o <<"/">>}
    /\ EndsWith(api_url_arg, "/") => api_url_arg = api_url \o <<"/">>
    /\ ~EndsWithTwoSlashes(api_url_arg)
         => /\ ~EndsWith(api_url, "/")
            /\ \A i \in 1..Len(sent) : ~DoubledSlash(sent[i].url)

C6_Witness ==
    /\ api_url_arg = BaseUrl \o <<"/">>
    /\ api_url = BaseUrl
    /\ Len(sent) = 1
    /\ sent[1].url[Len(BaseUrl) + 1] = "/"
    /\ sent[1].url[Len(BaseUrl) + 2] = "api"

(***************************************************************************)
(* C7.  create_custom_field issues its POST if and only if type is one of  *)
(* the 14 recognized values and it is not "option" with group "";          *)
(* otherwise it raises the local validation error before any request,      *)
(* whatever the other arguments.                                           *)
(***************************************************************************)
\* C7: create_custom_field sends its POST iff the type is recognized and not
\* "option" with an empty group; otherwise ValueError and no request
C7_CustomFieldValidation ==
    (Done /\ call.op = "create_custom_field")
        => LET type == Bind(call, 3, "type", EmptyStr)
               group == Bind(call, 5, "group", EmptyStr)
               accepted == type \in valid_types /\ ~(type = <<"option">> /\ group = EmptyStr)
           IN  /\ Cardinality(valid_types) = 14
               /\ accepted <=> (Len(sent) = 1 /\ sent[1].method = "POST")
               /\ ~accepted => (Raised("ValueError") /\ sent = <<>>)

C7_Witness ==
    /\ Done
    /\ call.op = "create_custom_field"
    /\ Bind(call, 3, "type", EmptyStr) = <<"option">>
    /\ Bind(call, 5, "group", EmptyStr) = EmptyStr
    /\ "visible" \in DOMAIN call.kwargs
    /\ Raised("ValueError")

Posted == Done /\ call.op \in {"add_subscription", "update_subscription"} /\ Len(sent) = 1
Extras(c) == [k \in DOMAIN c.kwargs \ AddSubscriptionParams |-> c.kwargs[k]]
IsYes(d, k) == k \in DOMAIN d /\ d[k] = Yes

\* C9 as claimed: each flag key is "yes" exactly when its flag is true, and every
\* extra field is in the payload with the value passed
C9_FlagsExactly ==
    Posted
        => LET d == sent[1].data
               x == Extras(call)
           IN  /\ IsYes(d, "FORCE_SUBSCRIBE") <=> Bind(call, 6, "force_subscribe", TRUE)
               /\ IsYes(d, "REQUIRE_CONFIRMATION") <=> Bind(call, 7, "require_confirmation", FALSE)
               /\ \A k \in DOMAIN x : k \in DOMAIN d /\ d[k] = x[k]

\* the keys the named arguments write, given the call
Written(c) ==
    {k \in {"MERGE_FIRST_NAME", "MERGE_LAST_NAME", "TIMEZONE", "FORCE_SUBSCRIBE",
            "REQUIRE_CONFIRMATION"} :
        \/ k = "MERGE_FIRST_NAME" /\ Bind(c, 3, "first_name", EmptyStr) # EmptyStr
        \/ k = "MERGE_LAST_NAME" /\ Bind(c, 4, "last_name", EmptyStr) # EmptyStr
        \/ k = "TIMEZONE" /\ Bind(c, 5, "timezone", EmptyStr) # EmptyStr
        \/ k = "FORCE_SUBSCRIBE" /\ Bind(c, 6, "force_subscribe", TRUE)
        \/ k = "REQUIRE_CONFIRMATION" /\ Bind(c, 7, "require_confirmation", FALSE)}

\* C9 as amended: a true flag writes "yes"; a false flag leaves the key to the extra
\* fields; an extra field keeps its value unless a named argument writes its key
C9_FlagsAndExtras ==
    Posted
        => LET d == sent[1].data
               x == Extras(call)
               flag(k, on) ==
                   IF on THEN IsYes(d, k)
                   ELSE /\ k \in DOMAIN d <=> k \in DOMAIN x
                        /\ k \in DOMAIN x => d[k] = x[k]
           IN  /\ flag("FORCE_SUBSCRIBE", Bind(call, 6, "force_subscribe", TRUE))
               /\ flag("REQUIRE_CONFIRMATION", Bind(call, 7, "require_confirmation", FALSE))
               /\ \A k \in DOMAIN x : k \in DOMAIN d /\ (k \notin Written(call) => d[k] = x[k])

C9_Witness ==
    /\ Posted
    /\ call.op = "update_subscription"
    /\ Bind(call, 6, "force_subscribe", TRUE) = FALSE
    /\ Bind(call, 7, "require_confirmation", FALSE) = TRUE
    /\ DOMAIN Extras(call) = {"MERGE_CITY"}
    /\ "FORCE_SUBSCRIBE" \notin DOMAIN sent[1].data
    /\ IsYes(sent[1].data, "REQUIRE_CONFIRMATION")
    /\ IsYes(sent[1].data, "MERGE_CITY")

(***************************************************************************)
(* C10.  In every request sent by an e-mail-validated operation, the EMAIL *)
(* that reaches the server (the form field, or the path segment of         *)
(* get_lists) is the e-mail argument that passed validation.               *)
(***************************************************************************)
\* C10: the EMAIL field (the path segment for get_lists) of every request of an
\* e-mail-validated operation is the e-mail argument
C10_PostedEmailIsValidated ==
    (Started /\ call.op \in EmailValidated)
        => \A i \in 1..Len(sent) :
              IF sent[i].method = "GET"
              THEN sent[i].url = api_url \o <<"/", "api", "/", "lists", "/">> \o Email(call)
                                     \o <<"?access_token=">> \o api_token
              ELSE sent[i].data["EMAIL"] = Email(call)

====
